---------------------------- MODULE Spec2Model ----------------------------
(***************************************************************************)
(* Bencode codec of crates/bencoding: the recursive-descent Decoder        *)
(* (decode.rs) and the Encodable serialiser (encode.rs) over BencodeType   *)
(* (bencode.rs), driven the way the round-trip tests of lib.rs drive them. *)
(*                                                                         *)
(* A byte is its numeric code, a buffer a sequence of bytes.  A Rust index *)
(* c (0-based) is element c+1 of the sequence.  An i64 is kept as a sign   *)
(* and its decimal magnitude, so that the real 64-bit limits are used.     *)
(***************************************************************************)
EXTENDS Integers, Sequences, FiniteSets, TLC

---------------------------------------------------------------------------
(* Bytes the code names.                                                   *)
B_i == 105
B_l == 108
B_d == 100
B_e == 101
B_colon == 58
B_0 == 48
B_9 == 57
B_minus == 45
B_plus == 43
B_a == 97
B_b == 98
(* '1', and a byte that occurs in no UTF-8 text.                           *)
B_1 == B_0 + 1
B_ff == 128 + 127

(* Option<&u8>::None of input.get(cursor).                                 *)
None == -1

IsDigitByte(b) == b >= B_0 /\ b <= B_9

---------------------------------------------------------------------------
(* BencodeType: a value is <<tag, payload>>.                               *)
ByteString(s) == <<"ByteString", s>>
Integer(n) == <<"Integer", n>>
List(items) == <<"List", items>>
Dictionary(m) == <<"Dictionary", m>>

Tag(v) == v[1]
Payload(v) == v[2]

(* An i64: neg is the sign, mag the decimal digits of |n|, most            *)
(* significant first, no leading zero; zero is [neg FALSE, mag <<0>>].     *)
I64(neg, mag) == [neg |-> neg, mag |-> mag]

(* i64::MAX = 9223372036854775807 and |i64::MIN| = 9223372036854775808.    *)
I64MaxMag == <<9,2,2,3,3,7,2,0,3,6,8,5,4,7,7,5,8,0,7>>
I64MinMag == <<9,2,2,3,3,7,2,0,3,6,8,5,4,7,7,5,8,0,8>>
(* usize::MAX = 18446744073709551615 on a 64-bit target.                   *)
UsizeMaxMag == <<1,8,4,4,6,7,4,4,0,7,3,7,0,9,5,5,1,6,1,5>>

---------------------------------------------------------------------------
(* Decimal digit sequences.                                                *)
RECURSIVE StripZeros(_)
StripZeros(ds) ==
    IF Len(ds) > 1 /\ ds[1] = 0 THEN StripZeros(Tail(ds)) ELSE ds

RECURSIVE LexLeq(_, _)
LexLeq(a, b) ==
    IF a = <<>> THEN TRUE
    ELSE IF b = <<>> THEN FALSE
    ELSE IF a[1] < b[1] THEN TRUE
    ELSE IF a[1] > b[1] THEN FALSE
    ELSE LexLeq(Tail(a), Tail(b))

(* a <= b for magnitudes without leading zeros.                            *)
MagLeq(a, b) == Len(a) < Len(b) \/ (Len(a) = Len(b) /\ LexLeq(a, b))

RECURSIVE DigitsToNat(_)
DigitsToNat(ds) ==
    IF ds = <<>> THEN 0
    ELSE DigitsToNat(SubSeq(ds, 1, Len(ds) - 1)) * 10 + ds[Len(ds)]

RECURSIVE NatToDigits(_)
NatToDigits(n) ==
    IF n < 10 THEN <<n>> ELSE Append(NatToDigits(n \div 10), n % 10)

DigitBytes(ds) == [k \in 1..Len(ds) |-> B_0 + ds[k]]
ByteDigits(bs) == [k \in 1..Len(bs) |-> bs[k] - B_0]

---------------------------------------------------------------------------
(* Display for usize and i64 (format! "{}").                               *)
FormatUsize(n) == DigitBytes(NatToDigits(n))

(* Display for i64 losing the sign                                        *)
FormatI64Drop(n) == DigitBytes(n.mag)

FormatI64(n) == (IF n.neg THEN <<B_minus>> ELSE <<>>) \o DigitBytes(n.mag)

(* a byte string written with a zero-padded length                         *)
EncodeBytesPad(s) == <<B_0>> \o FormatUsize(Len(s)) \o <<B_colon>> \o s

(* impl Encodable for Vec<u8>                                              *)
EncodeBytes(s) == FormatUsize(Len(s)) \o <<B_colon>> \o s

(* impl Encodable for i64                                                  *)
EncodeI64(n) == <<B_i>> \o FormatI64(n) \o <<B_e>>

RECURSIVE Encode(_), EncodeItems(_), EncodeEntries(_)

(* the for loop of impl Encodable for Vec<BencodeType>                     *)
EncodeItems(items) ==
    IF items = <<>> THEN <<>>
    ELSE Encode(items[1]) \o EncodeItems(Tail(items))

(* the for loop of impl Encodable for BTreeMap: entries in map order       *)
EncodeEntries(m) ==
    IF m = <<>> THEN <<>>
    ELSE EncodeBytes(m[1][1]) \o Encode(m[1][2]) \o EncodeEntries(Tail(m))

EncodeList(items) == <<B_l>> \o EncodeItems(items) \o <<B_e>>

EncodeDictionary(m) == <<B_d>> \o EncodeEntries(m) \o <<B_e>>

(* impl Encodable for BencodeType                                          *)
Encode(v) ==
    CASE Tag(v) = "ByteString" -> EncodeBytes(Payload(v))
      [] Tag(v) = "Integer" -> EncodeI64(Payload(v))
      [] Tag(v) = "List" -> EncodeList(Payload(v))
      [] Tag(v) = "Dictionary" -> EncodeDictionary(Payload(v))

---------------------------------------------------------------------------
(* BTreeMap<Vec<u8>, BencodeType>: a sequence of <<key, value>> entries    *)
(* kept in ascending key order (Ord for Vec<u8>: byte-lexicographic, a     *)
(* proper prefix first).                                                   *)
KeyLess(a, b) == a # b /\ LexLeq(a, b)

(* a map that keeps insertion order, as a Vec of entries would             *)
BTreeInsertAppend(m, k, v) == Append(m, <<k, v>>)

(* an insert that leaves a present key's value in place                    *)
RECURSIVE BTreeInsertKeepFirst(_, _, _)
BTreeInsertKeepFirst(m, k, v) ==
    IF m = <<>> THEN << <<k, v>> >>
    ELSE IF m[1][1] = k THEN m
    ELSE IF KeyLess(k, m[1][1]) THEN << <<k, v>> >> \o m
    ELSE << m[1] >> \o BTreeInsertKeepFirst(Tail(m), k, v)

(* BTreeMap::insert: a present key has its value replaced.                 *)
RECURSIVE BTreeInsert(_, _, _)
BTreeInsert(m, k, v) ==
    IF m = <<>> THEN << <<k, v>> >>
    ELSE IF m[1][1] = k THEN << <<k, v>> >> \o Tail(m)
    ELSE IF KeyLess(k, m[1][1]) THEN << <<k, v>> >> \o m
    ELSE << m[1] >> \o BTreeInsert(Tail(m), k, v)

---------------------------------------------------------------------------
(* str::parse of the standard library, as decode.rs uses it: an optional   *)
(* '+' (and, for a signed type, '-'), then one or more ASCII digits, the   *)
(* value checked against the type's range.  The result is [ok, val].       *)
AllDigitBytes(bs) == \A k \in 1..Len(bs) : IsDigitByte(bs[k])

ParseFail == [ok |-> FALSE, val |-> <<>>]

(* a parse that does not check the range of i64                            *)
ParseI64NoRange(s) ==
    IF s = <<>> THEN ParseFail
    ELSE LET signed == s[1] = B_plus \/ s[1] = B_minus
             body == IF signed THEN Tail(s) ELSE s
             mag == StripZeros(ByteDigits(body))
             neg == s[1] = B_minus /\ mag # <<0>>
         IN IF body = <<>> \/ ~AllDigitBytes(body) THEN ParseFail
            ELSE [ok |-> TRUE, val |-> I64(neg, mag)]

(* str::parse::<i64>                                                       *)
ParseI64(s) ==
    IF s = <<>> THEN ParseFail
    ELSE LET signed == s[1] = B_plus \/ s[1] = B_minus
             body == IF signed THEN Tail(s) ELSE s
             mag == StripZeros(ByteDigits(body))
             neg == s[1] = B_minus /\ mag # <<0>>
         IN IF body = <<>> \/ ~AllDigitBytes(body) THEN ParseFail
            ELSE IF ~MagLeq(mag, IF s[1] = B_minus THEN I64MinMag ELSE I64MaxMag)
                 THEN ParseFail
            ELSE [ok |-> TRUE, val |-> I64(neg, mag)]

(* str::parse::<usize>: val is the magnitude; '-' is no sign here.         *)
ParseUsize(s) ==
    IF s = <<>> THEN ParseFail
    ELSE LET body == IF s[1] = B_plus THEN Tail(s) ELSE s
             mag == StripZeros(ByteDigits(body))
         IN IF body = <<>> \/ ~AllDigitBytes(body) THEN ParseFail
            ELSE IF ~MagLeq(mag, UsizeMaxMag) THEN ParseFail
            ELSE [ok |-> TRUE, val |-> mag]

(* std::str::from_utf8 on the bytes the model uses: ASCII bytes are valid, *)
(* 0xFF occurs in no UTF-8 sequence.                                       *)
FromUtf8Ok(s) == \A k \in 1..Len(s) : s[k] < 128

---------------------------------------------------------------------------
(* Decoder { input, cursor }.  The decoder state d threaded through the    *)
(* methods is the cursor, the successive values the cursor took (path) and *)
(* the log of the decode() calls that returned Ok: <<c0, c1, value>>.      *)
NewDecoderState == [cursor |-> 0, path |-> <<0>>, calls |-> <<>>]

(* self.cursor += n                                                        *)
Advance(d, n) ==
    [d EXCEPT !.cursor = @ + n, !.path = Append(@, d.cursor + n)]

(* self.input.get(c)                                                       *)
Get(input, c) == IF c >= 0 /\ c < Len(input) THEN input[c + 1] ELSE None

(* &self.input[a..b], for a <= b <= len                                    *)
Slice(input, a, b) == SubSeq(input, a + 1, b)

(* Result<BencodeType, DecodeError>, or the panic of an out-of-range index *)
Ok(v, d) == [kind |-> "Ok", val |-> v, err |-> <<>>, d |-> d]
Err(e, d) == [kind |-> "Err", val |-> <<>>, err |-> e, d |-> d]
Panic(d) == [kind |-> "Panic", val |-> <<>>, err |-> <<>>, d |-> d]

InvalidUtf8 == <<"InvalidUtf8">>
InvalidInteger == <<"InvalidInteger">>
UnexpectedEndOfInput == <<"UnexpectedEndOfInput">>
UnexpectedCharacter(c) == <<"UnexpectedCharacter", c>>
UnexpectedFormat == <<"UnexpectedFormat">>

(* while self.input.get(self.cursor) != Some(&delim) { self.cursor += 1;   *)
(*   if self.cursor >= self.input.len() { return Err(..) } }               *)
RECURSIVE ScanTo(_, _, _)
ScanTo(input, d, delim) ==
    IF Get(input, d.cursor) = delim THEN [eof |-> FALSE, d |-> d]
    ELSE LET d1 == Advance(d, 1)
         IN IF d1.cursor >= Len(input) THEN [eof |-> TRUE, d |-> d1]
            ELSE ScanTo(input, d1, delim)

(* Decoder::decode_bytestring.  A length above input.len() makes           *)
(* self.cursor += string_len overflow or pass the end, and the slice       *)
(* &self.input[string_start..self.cursor] panics either way.               *)
decode_bytestring(input, d) ==
    LET start == d.cursor
        s == ScanTo(input, d, B_colon)
        span == Slice(input, start, s.d.cursor)
        n == ParseUsize(span)
        d2 == Advance(s.d, 1)
        string_start == d2.cursor
        string_len == DigitsToNat(n.val)
        d3 == Advance(d2, string_len)
    IN IF s.eof THEN Err(UnexpectedEndOfInput, s.d)
       ELSE IF ~FromUtf8Ok(span) THEN Err(InvalidUtf8, s.d)
       ELSE IF ~n.ok THEN Err(InvalidInteger, s.d)
       ELSE IF ~MagLeq(n.val, NatToDigits(Len(input))) THEN Panic(d2)
       ELSE IF d3.cursor > Len(input) THEN Panic(d3)
       ELSE Ok(ByteString(Slice(input, string_start, d3.cursor)), d3)

(* Decoder::decode_integer                                                 *)
decode_integer(input, d) ==
    LET d1 == Advance(d, 1)
        start == d1.cursor
        s == ScanTo(input, d1, B_e)
        integer_str == Slice(input, start, s.d.cursor)
        d2 == Advance(s.d, 1)
        n == ParseI64(integer_str)
    IN IF s.eof THEN Err(UnexpectedEndOfInput, s.d)
       ELSE IF ~FromUtf8Ok(integer_str) THEN Err(InvalidUtf8, s.d)
       ELSE IF Len(integer_str) > 1 /\ integer_str[1] = B_0
            THEN Err(InvalidInteger, d2)
       ELSE IF integer_str = <<B_minus, B_0>> THEN Err(InvalidInteger, d2)
       ELSE IF ~n.ok THEN Err(InvalidInteger, d2)
       ELSE Ok(Integer(n.val), d2)

RECURSIVE decode(_, _), decode_list_loop(_, _, _), decode_dictionary_loop(_, _, _)

(* decode_list with the closing 'e' left unconsumed                         *)
RECURSIVE decode_list_loopNoSkip(_, _, _)
decode_list_loopNoSkip(input, d, res) ==
    IF Get(input, d.cursor) = B_e THEN Ok(List(res), d)
    ELSE LET r == decode(input, d)
         IN IF r.kind # "Ok" THEN r
            ELSE IF r.d.cursor >= Len(input) THEN Err(UnexpectedEndOfInput, r.d)
            ELSE decode_list_loopNoSkip(input, r.d, Append(res, r.val))

(* the while loop of Decoder::decode_list and the lines after it           *)
decode_list_loop(input, d, res) ==
    IF Get(input, d.cursor) = B_e THEN Ok(List(res), Advance(d, 1))
    ELSE LET r == decode(input, d)
         IN IF r.kind # "Ok" THEN r
            ELSE IF r.d.cursor >= Len(input) THEN Err(UnexpectedEndOfInput, r.d)
            ELSE decode_list_loop(input, r.d, Append(res, r.val))

(* Decoder::decode_list                                                    *)
decode_list(input, d) == decode_list_loop(input, Advance(d, 1), <<>>)

(* the while loop of Decoder::decode_dictionary and the lines after it     *)
decode_dictionary_loop(input, d, res) ==
    IF Get(input, d.cursor) = B_e THEN Ok(Dictionary(res), Advance(d, 1))
    ELSE LET k == decode_bytestring(input, d)
             v == decode(input, k.d)
         IN IF k.kind # "Ok" THEN k
            ELSE IF Tag(k.val) # "ByteString" THEN Err(UnexpectedFormat, k.d)
            ELSE IF v.kind # "Ok" THEN v
            ELSE IF v.d.cursor >= Len(input) THEN Err(UnexpectedEndOfInput, v.d)
            ELSE decode_dictionary_loop(input, v.d,
                                        BTreeInsert(res, Payload(k.val), v.val))

(* Decoder::decode_dictionary                                              *)
decode_dictionary(input, d) == decode_dictionary_loop(input, Advance(d, 1), <<>>)

(* the match of Decoder::decode on self.input[self.cursor]                 *)
Dispatch(input, d) ==
    LET c == input[d.cursor + 1]
    IN CASE c = B_i -> decode_integer(input, d)
         [] c = B_l -> decode_list(input, d)
         [] c = B_d -> decode_dictionary(input, d)
         [] IsDigitByte(c) -> decode_bytestring(input, d)
         [] OTHER -> Err(UnexpectedCharacter(c), d)

(* Decoder::decode; indexing at or past input.len() panics.  An Ok return  *)
(* is logged with the cursor before and after it.                          *)
decode(input, d) ==
    IF d.cursor >= Len(input) THEN Panic(d)
    ELSE LET r == Dispatch(input, d)
         IN IF r.kind = "Ok"
            THEN [r EXCEPT !.d.calls = Append(@, <<d.cursor, r.d.cursor, r.val>>)]
            ELSE r

---------------------------------------------------------------------------
(* Bounds of the inputs.                                                   *)
MaxBufLen == 5
MaxSpan == 4
MaxItems == 2
MaxPairs == 3

SeqsUpTo(S, n) == UNION {[1..k -> S] : k \in 0..n}

(* Bytes of the arbitrary buffers.                                         *)
Alphabet == {B_i, B_l, B_d, B_e, B_colon, B_0, B_1, B_minus, B_plus, B_a}

(* Bytes of the integer literals.                                          *)
SpanAlphabet == {B_minus, B_plus, B_0, B_1, B_9, B_a}

(* Literals at and around the limits of i64 and u64.                       *)
LimitSpans ==
    { DigitBytes(I64MaxMag),
      DigitBytes(I64MinMag),
      <<B_minus>> \o DigitBytes(I64MinMag),
      <<B_minus>> \o DigitBytes(Append(SubSeq(I64MinMag, 1, 18), 9)),
      <<B_minus>> \o DigitBytes(I64MaxMag),
      <<B_plus>> \o DigitBytes(I64MaxMag),
      DigitBytes(UsizeMaxMag),
      DigitBytes(Append(SubSeq(UsizeMaxMag, 1, 19), 6)),
      <<B_minus>> \o DigitBytes(Append(SubSeq(UsizeMaxMag, 1, 19), 6)),
      DigitBytes(I64MaxMag \o <<0>>) }

IntegerBuffers ==
    { <<B_i>> \o sp \o <<B_e>> : sp \in SeqsUpTo(SpanAlphabet, MaxSpan) \cup LimitSpans }

(* Buffers holding a byte that is not UTF-8.                               *)
NonUtf8Buffers ==
    { <<B_i, B_ff, B_e>>, <<B_1, B_ff, B_colon, B_a>>, <<B_ff>>,
      <<B_1, B_colon, B_ff>>, <<B_d, B_ff, B_colon, B_e>> }

(* Dictionary buffers whose key slot holds an integer, a list, a           *)
(* dictionary: b"di1e1:ae", b"dle1:ae", b"dde1:ae".                        *)
KeySlotBuffers ==
    { <<B_d>> \o k \o <<B_1, B_colon, B_a, B_e>> :
        k \in { <<B_i, B_1, B_e>>, <<B_l, B_e>>, <<B_d, B_e>> } }

Buffers ==
    SeqsUpTo(Alphabet, MaxBufLen) \cup IntegerBuffers \cup NonUtf8Buffers
        \cup KeySlotBuffers

(* Values built directly, as the tests build them.                         *)
Zero == I64(FALSE, <<0>>)
Atoms ==
    { ByteString(<<>>), ByteString(<<B_a>>), ByteString(<<B_i, B_e>>),
      Integer(Zero), Integer(I64(TRUE, <<1>>)), Integer(I64(FALSE, <<1, 0>>)),
      Integer(I64(FALSE, I64MaxMag)), Integer(I64(TRUE, I64MinMag)) }

Keys == { <<B_a>>, <<B_b>>, <<B_a, B_b>> }

(* BTreeMap::new() followed by one insert per entry of the listing         *)
RECURSIVE MkMap(_)
MkMap(entries) ==
    IF entries = <<>> THEN <<>>
    ELSE BTreeInsert(MkMap(SubSeq(entries, 1, Len(entries) - 1)),
                     entries[Len(entries)][1], entries[Len(entries)][2])

ListsOf(S) == { List(items) : items \in SeqsUpTo(S, MaxItems) }
DictionariesOf(S) ==
    { Dictionary(MkMap(es)) : es \in SeqsUpTo(Keys \X S, MaxItems) }

Flat == Atoms \cup ListsOf(Atoms) \cup DictionariesOf(Atoms)

Inner ==
    { ByteString(<<B_a>>), Integer(I64(TRUE, <<1>>)), List(<<>>),
      List(<<Integer(Zero)>>), Dictionary(<<>>),
      Dictionary(MkMap(<< <<<<B_a>>, ByteString(<<B_b>>)>> >>)) }

Values == Flat \cup ListsOf(Inner) \cup DictionariesOf(Inner)

(* Entries a dictionary buffer lists, in the order it lists them.          *)
ListedValues == { Integer(Zero), ByteString(<<B_a>>), List(<<>>) }
Listings == SeqsUpTo(Keys \X ListedValues, MaxPairs)

(* The buffer b"d<key><value>...e" listing the entries in the given order. *)
RECURSIVE ListingBytes(_)
ListingBytes(es) ==
    IF es = <<>> THEN <<>>
    ELSE EncodeBytes(es[1][1]) \o Encode(es[1][2]) \o ListingBytes(Tail(es))

DictionaryBuffer(es) == <<B_d>> \o ListingBytes(es) \o <<B_e>>

---------------------------------------------------------------------------
NoValue == <<"None", <<>>>>
NoResult == [kind |-> "None", val |-> <<>>, err |-> <<>>, d |-> NewDecoderState]

VARIABLES
    pc,          \* position in the test's body
    original,    \* the value built for encoding, or NoValue
    encoded,     \* original.encode()
    listing,     \* the entries the input buffer was written from
    input,       \* Decoder.input
    cursor,      \* Decoder.cursor
    result,      \* what decoder.decode() returned, or the panic
    re_encoded   \* decoded.encode()

vars == <<pc, original, encoded, listing, input, cursor, result, re_encoded>>

Init ==
    /\ pc = "start"
    /\ original = NoValue
    /\ encoded = <<>>
    /\ listing = <<>>
    /\ input = <<>>
    /\ cursor = 0
    /\ result = NoResult
    /\ re_encoded = <<>>

(* let original = BencodeType::...                                         *)
BuildValue ==
    /\ pc = "start"
    /\ \E v \in Values : original' = v
    /\ pc' = "built"
    /\ UNCHANGED <<encoded, listing, input, cursor, result, re_encoded>>

(* let encoded = original.clone().encode()                                 *)
EncodeOriginal ==
    /\ pc = "built"
    /\ encoded' = Encode(original)
    /\ pc' = "encoded"
    /\ UNCHANGED <<original, listing, input, cursor, result, re_encoded>>

(* Decoder::new(&encoded)                                                  *)
NewDecoderOnEncoded ==
    /\ pc = "encoded"
    /\ input' = encoded
    /\ cursor' = 0
    /\ pc' = "ready"
    /\ UNCHANGED <<original, encoded, listing, result, re_encoded>>

(* Decoder::new(&encoded[..n]) for a proper prefix                         *)
NewDecoderOnPrefix ==
    /\ pc = "encoded"
    /\ \E n \in 0..(Len(encoded) - 1) : input' = SubSeq(encoded, 1, n)
    /\ cursor' = 0
    /\ pc' = "ready"
    /\ UNCHANGED <<original, encoded, listing, result, re_encoded>>

(* Decoder::new(&bytes) for bytes from outside                             *)
NewDecoderOnBytes ==
    /\ pc = "start"
    /\ \E b \in Buffers : input' = b
    /\ cursor' = 0
    /\ pc' = "ready"
    /\ UNCHANGED <<original, encoded, listing, result, re_encoded>>

(* Decoder::new(&bytes) for a dictionary buffer written entry by entry     *)
NewDecoderOnListing ==
    /\ pc = "start"
    /\ \E es \in Listings \ {<<>>} :
          /\ listing' = es
          /\ input' = DictionaryBuffer(es)
    /\ cursor' = 0
    /\ pc' = "ready"
    /\ UNCHANGED <<original, encoded, result, re_encoded>>

(* decoder.decode()                                                        *)
Decode ==
    /\ pc = "ready"
    /\ result' = decode(input, NewDecoderState)
    /\ cursor' = result'.d.cursor
    /\ pc' = "decoded"
    /\ UNCHANGED <<original, encoded, listing, input, re_encoded>>

(* let re_encoded = decoded.encode(), after unwrap()                       *)
ReEncode ==
    /\ pc = "decoded"
    /\ result.kind = "Ok"
    /\ re_encoded' = Encode(result.val)
    /\ pc' = "done"
    /\ UNCHANGED <<original, encoded, listing, input, cursor, result>>

Next ==
    \/ BuildValue
    \/ EncodeOriginal
    \/ NewDecoderOnEncoded
    \/ NewDecoderOnPrefix
    \/ NewDecoderOnBytes
    \/ NewDecoderOnListing
    \/ Decode
    \/ ReEncode

Spec == Init /\ [][Next]_vars

---------------------------------------------------------------------------
(* The format grammar, read off a buffer without the decoder:              *)
(*   value      = bytestring / integer / list / dictionary                 *)
(*   bytestring = 1*DIGIT ":" *OCTET                                       *)
(*   integer    = "i" ["-"] 1*DIGIT "e"                                    *)
(*   list       = "l" *value "e"                                           *)
(*   dictionary = "d" *(bytestring value) "e"                              *)
(* in canonical form: no leading zeros, no "-0", keys strictly ascending.  *)
(* CanonEnd(b, i) is the index after the canonical value starting at       *)
(* index i (0-based), or -1 when there is none.                            *)
RECURSIVE DigitRunEnd(_, _)
DigitRunEnd(b, i) ==
    IF i < Len(b) /\ IsDigitByte(b[i + 1]) THEN DigitRunEnd(b, i + 1) ELSE i

CanonDigits(run) == run # <<>> /\ (Len(run) > 1 => run[1] # B_0)

CanonByteStringEnd(b, i) ==
    LET j == DigitRunEnd(b, i)
        run == Slice(b, i, j)
    IN IF ~CanonDigits(run) \/ Get(b, j) # B_colon THEN -1
       ELSE IF ~MagLeq(ByteDigits(run), NatToDigits(Len(b))) THEN -1
       ELSE IF j + 1 + DigitsToNat(ByteDigits(run)) > Len(b) THEN -1
       ELSE j + 1 + DigitsToNat(ByteDigits(run))

(* span matches ["-"] 1*DIGIT, no leading zero, not "-0"                   *)
CanonIntegerSpan(span) ==
    LET digits == IF span # <<>> /\ span[1] = B_minus THEN Tail(span) ELSE span
    IN /\ AllDigitBytes(digits)
       /\ CanonDigits(digits)
       /\ span # <<B_minus, B_0>>

CanonIntegerEnd(b, i) ==
    LET k == IF Get(b, i + 1) = B_minus THEN i + 2 ELSE i + 1
        j == DigitRunEnd(b, k)
    IN IF CanonIntegerSpan(Slice(b, i + 1, j)) /\ Get(b, j) = B_e THEN j + 1 ELSE -1

RECURSIVE CanonEnd(_, _), CanonItemsEnd(_, _), CanonEntriesEnd(_, _, _, _)

CanonItemsEnd(b, i) ==
    IF Get(b, i) = B_e THEN i + 1
    ELSE LET j == CanonEnd(b, i)
         IN IF j = -1 THEN -1 ELSE CanonItemsEnd(b, j)

CanonEntriesEnd(b, i, first, prev) ==
    IF Get(b, i) = B_e THEN i + 1
    ELSE LET j == CanonByteStringEnd(b, i)
             colon == DigitRunEnd(b, i)
             key == Slice(b, colon + 1, j)
             k == CanonEnd(b, j)
         IN IF j = -1 THEN -1
            ELSE IF ~first /\ ~KeyLess(prev, key) THEN -1
            ELSE IF k = -1 THEN -1
            ELSE CanonEntriesEnd(b, k, FALSE, key)

CanonEnd(b, i) ==
    LET c == Get(b, i)
    IN CASE c = B_i -> CanonIntegerEnd(b, i)
         [] c = B_l -> CanonItemsEnd(b, i + 1)
         [] c = B_d -> CanonEntriesEnd(b, i + 1, TRUE, <<>>)
         [] IsDigitByte(c) -> CanonByteStringEnd(b, i)
         [] OTHER -> -1

Canonical(b) == CanonEnd(b, 0) = Len(b)

---------------------------------------------------------------------------
(* Vocabulary of the properties.                                           *)
Decoded == pc \in {"decoded", "done"}

IsProperPrefix(p, b) == Len(p) < Len(b) /\ p = SubSeq(b, 1, Len(p))

IsErr(r, e) == r.kind = "Err" /\ r.err = e

Range(f) == { f[k] : k \in DOMAIN f }

(* input is b"i" span b"e", the span free of 'e'                           *)
IsIntegerBuffer(b) ==
    /\ Len(b) >= 2
    /\ b[1] = B_i
    /\ b[Len(b)] = B_e
    /\ \A k \in 2..(Len(b) - 1) : b[k] # B_e
SpanOf(b) == SubSeq(b, 2, Len(b) - 1)

(* a span of the form [sign] 1*DIGIT and the number it writes              *)
IsSignedDigits(span) ==
    LET digits == IF span # <<>> /\ span[1] \in {B_minus, B_plus}
                  THEN Tail(span) ELSE span
    IN digits # <<>> /\ AllDigitBytes(digits)
LiteralMag(span) ==
    StripZeros(ByteDigits(IF span[1] \in {B_minus, B_plus} THEN Tail(span) ELSE span))
LiteralNeg(span) == span[1] = B_minus /\ LiteralMag(span) # <<0>>
InI64Range(span) ==
    MagLeq(LiteralMag(span), IF LiteralNeg(span) THEN I64MinMag ELSE I64MaxMag)

(* the entries of a listing, keys ascending, each key with the value of    *)
(* its last occurrence                                                     *)
KeysOf(es) == { es[k][1] : k \in DOMAIN es }
LastOf(es, key) ==
    es[CHOOSE k \in DOMAIN es :
          es[k][1] = key /\ \A j \in DOMAIN es : es[j][1] = key => j <= k]
RECURSIVE AscendingOver(_, _)
AscendingOver(es, keys) ==
    IF keys = {} THEN <<>>
    ELSE LET least == CHOOSE k \in keys : \A o \in keys : o = k \/ KeyLess(k, o)
         IN << LastOf(es, least) >> \o AscendingOver(es, keys \ {least})
Ascending(es) == AscendingOver(es, KeysOf(es))

DistinctKeys(es) == Cardinality(KeysOf(es)) = Len(es)

Reorderings(es) ==
    { [k \in DOMAIN es |-> es[p[k]]] :
        p \in { q \in [DOMAIN es -> DOMAIN es] : Range(q) = DOMAIN es } }

StrictlyAscendingKeys(m) ==
    \A k \in 1..(Len(m) - 1) : KeyLess(m[k][1], m[k + 1][1])

---------------------------------------------------------------------------
(* C1: decoding the encoding of a built value v with a fresh decoder       *)
(* returns Ok(v) and leaves the cursor at the end of the buffer.           *)
C1_DecodeOfEncode ==
    (pc = "decoded" /\ original # NoValue /\ input = encoded) =>
        /\ result.kind = "Ok"
        /\ result.val = original
        /\ cursor = Len(input)

C1_Witness ==
    /\ pc = "decoded"
    /\ input = encoded
    /\ original = Dictionary(MkMap(<< <<<<B_b>>, List(<<Integer(Zero)>>)>>,
                                      <<<<B_a>>, Integer(I64(TRUE, <<1>>))>> >>))
    /\ result.kind = "Ok"
    /\ cursor = Len(encoded)

(* C2: a buffer in canonical form that decodes to v is reproduced byte    *)
(* for byte by encoding v.                                                 *)
C2_EncodeOfDecode ==
    (pc = "done" /\ Canonical(input)) => re_encoded = input

C2_Witness ==
    /\ pc = "done"
    /\ Canonical(input)
    /\ Len(listing) = 2
    /\ Tag(listing[2][2]) = "List"
    /\ re_encoded = input

(* C3: decoding a proper prefix of the encoding of a value returns         *)
(* Err(UnexpectedEndOfInput), without a panic.                             *)
C3_TruncationIsEndOfInput ==
    (pc = "decoded" /\ original # NoValue /\ IsProperPrefix(input, encoded)) =>
        IsErr(result, UnexpectedEndOfInput)

(* C4: a byte-string length prefix larger than the bytes left after its    *)
(* ':' (at top level, or first in a list or a dictionary) gives            *)
(* Err(UnexpectedEndOfInput) and the cursor stays within the buffer.       *)
LengthOverrunsAt(b, c) ==
    LET j == DigitRunEnd(b, c)
        run == Slice(b, c, j)
    IN /\ run # <<>>
       /\ Get(b, j) = B_colon
       /\ \/ ~MagLeq(StripZeros(ByteDigits(run)), NatToDigits(Len(b)))
          \/ j + 1 + DigitsToNat(ByteDigits(run)) > Len(b)

C4_LengthOverrunIsEndOfInput ==
    (/\ pc = "decoded"
     /\ \/ LengthOverrunsAt(input, 0)
        \/ Get(input, 0) \in {B_l, B_d} /\ LengthOverrunsAt(input, 1))
    => (IsErr(result, UnexpectedEndOfInput) /\ cursor <= Len(input))

(* C5: b"i" span b"e" decodes to Integer(n), n the number span writes,     *)
(* when span is ["-"] 1*DIGIT without a leading zero and not "-0"; every   *)
(* other span gives Err(InvalidInteger).                                   *)
C5_IntegerGrammar ==
    (pc = "decoded" /\ IsIntegerBuffer(input) /\ FromUtf8Ok(input)) =>
        IF CanonIntegerSpan(SpanOf(input))
        THEN result.kind = "Ok" =>
                result.val = Integer(I64(LiteralNeg(SpanOf(input)),
                                         LiteralMag(SpanOf(input))))
        ELSE IsErr(result, InvalidInteger)

(* C6: encoding a dictionary emits its entries with the keys strictly      *)
(* ascending, each key once; buffers listing the same entries with         *)
(* distinct keys in any order decode to equal values and re-encode to the  *)
(* same bytes.                                                             *)
C6_CanonicalDictionaryOrder ==
    /\ (pc = "encoded" /\ Tag(original) = "Dictionary") =>
          /\ StrictlyAscendingKeys(Payload(original))
          /\ encoded = DictionaryBuffer(Ascending(Payload(original)))
    /\ (pc = "done" /\ listing # <<>> /\ DistinctKeys(listing)) =>
          /\ re_encoded = DictionaryBuffer(Ascending(listing))
          /\ \A other \in Reorderings(listing) :
                LET r == decode(DictionaryBuffer(other), NewDecoderState)
                IN /\ r.kind = "Ok"
                   /\ r.val = result.val
                   /\ Encode(r.val) = re_encoded

C6_Witness ==
    /\ pc = "done"
    /\ Len(listing) = 3
    /\ DistinctKeys(listing)
    /\ KeyLess(listing[3][1], listing[1][1])
    /\ KeyLess(listing[1][1], listing[2][1])
    /\ re_encoded = DictionaryBuffer(<<listing[3], listing[1], listing[2]>>)

(* C7: an integer literal outside [-2^63, 2^63-1] gives                    *)
(* Err(InvalidInteger); an Ok result is the number the literal writes; the *)
(* two limits decode.                                                      *)
C7_IntegerRange ==
    (pc = "decoded" /\ IsIntegerBuffer(input) /\ IsSignedDigits(SpanOf(input))) =>
        LET span == SpanOf(input)
        IN /\ ~InI64Range(span) => IsErr(result, InvalidInteger)
           /\ result.kind = "Ok" =>
                 /\ Tag(result.val) = "Integer"
                 /\ Payload(result.val) = I64(LiteralNeg(span), LiteralMag(span))
                 /\ InI64Range(span)
           /\ span \in { DigitBytes(I64MaxMag), <<B_minus>> \o DigitBytes(I64MinMag) }
                 => result.kind = "Ok"

C7_Witness ==
    /\ pc = "decoded"
    /\ input = <<B_i>> \o DigitBytes(I64MinMag) \o <<B_e>>
    /\ IsErr(result, InvalidInteger)

(* C8: every decode() call that returned Ok, at top level or nested,       *)
(* moved the cursor from c0 to c1 with c0 < c1 <= input.len(); the bytes   *)
(* input[c0..c1] decoded alone give the same value and are consumed        *)
(* whole; the cursor never went down.                                      *)
C8_CursorCoversOneValue ==
    Decoded =>
        /\ \A k \in DOMAIN result.d.calls :
              LET c0 == result.d.calls[k][1]
                  c1 == result.d.calls[k][2]
                  alone == decode(Slice(input, c0, c1), NewDecoderState)
              IN /\ c0 < c1
                 /\ c1 <= Len(input)
                 /\ alone.kind = "Ok"
                 /\ alone.val = result.d.calls[k][3]
                 /\ alone.d.cursor = c1 - c0
        /\ result.kind = "Ok" =>
              /\ \A k \in 1..(Len(result.d.path) - 1) :
                    result.d.path[k] <= result.d.path[k + 1]
              /\ result.d.calls[Len(result.d.calls)] = <<0, cursor, result.val>>

C8_Witness ==
    /\ pc = "decoded"
    /\ result.kind = "Ok"
    /\ \E k \in DOMAIN result.d.calls :
          /\ result.d.calls[k][1] > 0
          /\ result.d.calls[k][2] < Len(input)
          /\ Tag(result.d.calls[k][3]) = "List"
          /\ Payload(result.d.calls[k][3]) # <<>>

(* C9: a dictionary whose key slot starts an integer, a list or a          *)
(* dictionary fails with DecodeError::UnexpectedFormat.                    *)
C9_KeySlotIsUnexpectedFormat ==
    (pc = "decoded" /\ Get(input, 0) = B_d /\ Get(input, 1) \in {B_i, B_l, B_d}) =>
        IsErr(result, UnexpectedFormat)

(* C10: a well-formed dictionary buffer that lists a key more than once    *)
(* decodes without error to a dictionary with one entry for that key,      *)
(* holding the value of its last occurrence; re-encoding emits it once.    *)
C10_DuplicateKeyLastWins ==
    (Decoded /\ listing # <<>> /\ ~DistinctKeys(listing)) =>
        /\ result.kind = "Ok"
        /\ Tag(result.val) = "Dictionary"
        /\ Len(Payload(result.val)) = Cardinality(KeysOf(listing))
        /\ \A key \in KeysOf(listing) :
              \E k \in DOMAIN Payload(result.val) :
                  Payload(result.val)[k] = LastOf(listing, key)
        /\ pc = "done" => re_encoded = DictionaryBuffer(Ascending(listing))

C10_Witness ==
    /\ pc = "done"
    /\ Len(listing) = 3
    /\ listing[1][1] = listing[3][1]
    /\ listing[1][2] # listing[3][2]
    /\ listing[2][1] # listing[1][1]
    /\ Len(Payload(result.val)) = 2

=============================================================================
